---- MODULE Spec2Model ----
(***************************************************************************)
(* Round-robin HTTP load balancer (src/main.go).                           *)
(*                                                                         *)
(* Tasks: one healthChecks goroutine per configured server (the probers)   *)
(* and one goroutine per inbound request running the handler of main,      *)
(* which calls LoadBalancer.getNextServer and then proxies or answers 503. *)
(* Shared state: lb.Current guarded by lb.Mutex, and each Server.IsHealthy *)
(* guarded by that Server's Mutex.                                         *)
(*                                                                         *)
(* Servers are named by their index in the servers slice, 0 .. n-1.        *)
(***************************************************************************)
EXTENDS Integers, Sequences, FiniteSets, TLC

\* ---------------------------------------------------------------- bounds
MaxServers == 3       \* largest len(config.Servers) explored
MaxInFlight == 2      \* request goroutines that may be in flight at once
MaxCalls == 6         \* requests served in one behaviour with at most one probe cycle
MaxProbes == 3        \* probe cycles (of all probers together) in one behaviour

\* ------------------------------------------------------------- constants
StatusOK == 200                  \* http.StatusOK
StatusServiceUnavailable == 503  \* http.StatusServiceUnavailable
StatusBadGateway == 502          \* what the reverse proxy answers when the backend fails
MaxInt == 2147483647             \* largest value of Go's int (narrowest build)
MinInt == -2147483647 - 1

Nil == -1                        \* the nil *Server
NoStatus == 0                    \* no response written yet

Slots == 1 .. MaxInFlight

\* Outcomes of client.Head: a response with status 200, a response with
\* another status, or an error (a transport error, or the client's 5 s
\* timeout, which client.Head also returns as an error).
ProbeOutcomes == {"ok200", "status", "error"}

VARIABLES
    n,          \* len(servers), fixed by main from the configuration
    IsHealthy,  \* Server.IsHealthy, per server
    srvMutex,   \* Server.Mutex, per server: TRUE when locked
    Current,    \* lb.Current
    lbMutex,    \* lb.Mutex: TRUE when locked
    prober,     \* per server: position of its healthChecks goroutine and its res/err
    req,        \* per slot: position and locals of a request goroutine
    picks,      \* history: what getNextServer returned, in order of return
    calls,      \* history: number of requests that have arrived
    probes,     \* history: number of ticks consumed
    lastProbe,  \* history: per server, how its last completed probe cycle ended
    downs,      \* history: number of probe cycles that ended in failure
    firstDown,  \* history: the first of them: its server and, when it fell between
                \* two selections, the number of selections done and lb.Current then
    allDown     \* history: per slot, whether all flags were false at once at some
                \* moment since the getNextServer call in progress was made

vars == <<n, IsHealthy, srvMutex, Current, lbMutex, prober, req, picks, calls,
          probes, lastProbe, downs, firstDown, allDown>>

lbVars == <<Current, lbMutex, req, picks, calls>>
proberVars == <<prober, probes, lastProbe, downs, firstDown>>

\* ----------------------------------------------------------- pure helpers

\* Go's % on ints: truncated division, the sign follows the dividend.
\* (Written without -a, which does not exist for the least int.)
GoMod(a, b) ==
    IF a >= 0 THEN a % b
    ELSE IF a % b = 0 THEN 0 ELSE (a % b) - b

\* Variant of GoInc: the increment is lost.
GoIncLost(a) == a

\* Go's ++ on an int: wraps around at the width of int.
GoInc(a) == IF a = MaxInt THEN MinInt ELSE a + 1

NoDown == [srv |-> Nil, between |-> FALSE, at |-> 0, cur |-> 0]

IdleReq == [pc |-> "idle", i |-> 0, idx |-> Nil, isHealthy |-> FALSE,
            server |-> Nil, start |-> 0, advanced |-> 0, seen |-> <<>>,
            header |-> Nil, proxied |-> <<>>, status |-> NoStatus]

\* The requests a behaviour with p probe cycles may serve: MaxCalls with at
\* most one cycle, then one fewer for every further cycle, down to one
\* request with MaxProbes cycles.
CallCap(p) == IF p <= 1 THEN MaxCalls ELSE MaxProbes - p + 1

\* The requests whose getNextServer call is in progress: made, not returned.
Calling == {r \in Slots : req[r].pc \in {"lock", "loop", "slock", "read", "sunlock", "test"}}

\* No flag of h is true.
AllFalse(h) == \A s \in DOMAIN h : ~h[s]

\* ------------------------------------------------------------------ Init
\* main: every server starts with IsHealthy: true, lb.Current is 0, both
\* kinds of mutex are unlocked, every prober waits for its first tick.
Init ==
    /\ n \in 0 .. MaxServers
    /\ IsHealthy = [s \in 0 .. (n - 1) |-> TRUE]
    /\ srvMutex = [s \in 0 .. (n - 1) |-> FALSE]
    /\ Current = 0
    /\ lbMutex = FALSE
    /\ prober = [s \in 0 .. (n - 1) |-> [pc |-> "tick", res |-> "none"]]
    /\ req = [r \in Slots |-> IdleReq]
    /\ picks = <<>>
    /\ calls = 0
    /\ probes = 0
    /\ lastProbe = [s \in 0 .. (n - 1) |-> "none"]
    /\ downs = 0
    /\ firstDown = NoDown
    /\ allDown = [r \in Slots |-> FALSE]

\* ------------------------------------------------- healthChecks (prober)

\* res, err of client.Head, read off an outcome.
HeadErr(o) == o = "error"
HeadStatusCode(o) == IF o = "ok200" THEN StatusOK ELSE StatusServiceUnavailable

\* Variant of ProbeHealthy: only the error is looked at, not the status.
ProbeHealthyAnyStatus(o) == IF HeadErr(o) THEN FALSE ELSE TRUE

\* The value the if / else-if / else of healthChecks gives s.IsHealthy.
ProbeHealthy(o) ==
    IF HeadErr(o) THEN FALSE
    ELSE IF HeadStatusCode(o) # StatusOK THEN FALSE
    ELSE TRUE

\* Mutation: a prober that takes s.Mutex before it issues client.Head.
TickLocksFirst(s) ==
    /\ prober[s].pc = "tick"
    /\ probes < MaxProbes
    /\ calls <= CallCap(probes + 1)
    /\ ~srvMutex[s]
    /\ srvMutex' = [srvMutex EXCEPT ![s] = TRUE]
    /\ prober' = [prober EXCEPT ![s].pc = "head"]
    /\ probes' = probes + 1
    /\ UNCHANGED <<n, IsHealthy, lbVars, lastProbe, downs, firstDown, allDown>>

\* for range ticker.C: the next tick arrives and client.Head is issued.
Tick(s) ==
    /\ prober[s].pc = "tick"
    /\ probes < MaxProbes
    /\ calls <= CallCap(probes + 1)
    /\ prober' = [prober EXCEPT ![s].pc = "head"]
    /\ probes' = probes + 1
    /\ UNCHANGED <<n, IsHealthy, srvMutex, lbVars, lastProbe, downs, firstDown, allDown>>

\* client.Head returns (a response, an error, or the 5 s timeout).
HeadReturns(s, o) ==
    /\ prober[s].pc = "head"
    /\ prober' = [prober EXCEPT ![s] = [pc |-> "lock", res |-> o]]
    /\ UNCHANGED <<n, IsHealthy, srvMutex, lbVars, probes, lastProbe, downs, firstDown, allDown>>

\* A probe succeeds when it completed without error and with status 200.
ProbeSucceeded(o) == o = "ok200"

\* Variant of ProberLock: the prober goes on without taking s.Mutex.
ProberNoLock(s) ==
    /\ prober[s].pc = "lock"
    /\ prober' = [prober EXCEPT ![s].pc = "set"]
    /\ UNCHANGED <<n, IsHealthy, srvMutex, lbVars, probes, lastProbe, downs, firstDown, allDown>>

\* s.Mutex.Lock()
ProberLock(s) ==
    /\ prober[s].pc = "lock"
    /\ ~srvMutex[s]
    /\ srvMutex' = [srvMutex EXCEPT ![s] = TRUE]
    /\ prober' = [prober EXCEPT ![s].pc = "set"]
    /\ UNCHANGED <<n, IsHealthy, lbVars, probes, lastProbe, downs, firstDown, allDown>>

\* Variant of ProberSet: a server once marked unhealthy stays so.
ProberSetSticky(s) ==
    /\ prober[s].pc = "set"
    /\ IsHealthy' = [IsHealthy EXCEPT ![s] = @ /\ ProbeHealthy(prober[s].res)]
    /\ lastProbe' = [lastProbe EXCEPT ![s] =
                        IF ProbeSucceeded(prober[s].res) THEN "success" ELSE "failure"]
    /\ downs' = IF ProbeSucceeded(prober[s].res) THEN downs ELSE downs + 1
    /\ firstDown' = IF ProbeSucceeded(prober[s].res) \/ downs > 0 THEN firstDown
                    ELSE IF lbMutex
                         THEN [srv |-> s, between |-> FALSE, at |-> 0, cur |-> 0]
                         ELSE [srv |-> s, between |-> TRUE, at |-> Len(picks),
                               cur |-> Current]
    /\ prober' = [prober EXCEPT ![s] = [pc |-> "unlock", res |-> "none"]]
    /\ allDown' = [r \in Slots |-> r \in Calling /\ (allDown[r] \/ AllFalse(IsHealthy'))]
    /\ UNCHANGED <<n, srvMutex, lbVars, probes>>

\* The assignment to s.IsHealthy. The history records how the cycle ended
\* and, for the first failed one, when it happened.
ProberSet(s) ==
    /\ prober[s].pc = "set"
    /\ IsHealthy' = [IsHealthy EXCEPT ![s] = ProbeHealthy(prober[s].res)]
    /\ lastProbe' = [lastProbe EXCEPT ![s] =
                        IF ProbeSucceeded(prober[s].res) THEN "success" ELSE "failure"]
    /\ downs' = IF ProbeSucceeded(prober[s].res) THEN downs ELSE downs + 1
    /\ firstDown' = IF ProbeSucceeded(prober[s].res) \/ downs > 0 THEN firstDown
                    ELSE IF lbMutex
                         THEN [srv |-> s, between |-> FALSE, at |-> 0, cur |-> 0]
                         ELSE [srv |-> s, between |-> TRUE, at |-> Len(picks),
                               cur |-> Current]
    /\ prober' = [prober EXCEPT ![s] = [pc |-> "unlock", res |-> "none"]]
    /\ allDown' = [r \in Slots |-> r \in Calling /\ (allDown[r] \/ AllFalse(IsHealthy'))]
    /\ UNCHANGED <<n, srvMutex, lbVars, probes>>

\* Mutation: a prober that returns from healthChecks after a failed probe.
ProberUnlockStopsOnFailure(s) ==
    /\ prober[s].pc = "unlock"
    /\ srvMutex' = [srvMutex EXCEPT ![s] = FALSE]
    /\ prober' = [prober EXCEPT ![s].pc = IF lastProbe[s] = "failure"
                                          THEN "stopped" ELSE "tick"]
    /\ UNCHANGED <<n, IsHealthy, lbVars, probes, lastProbe, downs, firstDown, allDown>>

\* res.Body.Close() and s.Mutex.Unlock(); back to waiting for a tick.
ProberUnlock(s) ==
    /\ prober[s].pc = "unlock"
    /\ srvMutex' = [srvMutex EXCEPT ![s] = FALSE]
    /\ prober' = [prober EXCEPT ![s].pc = "tick"]
    /\ UNCHANGED <<n, IsHealthy, lbVars, probes, lastProbe, downs, firstDown, allDown>>

\* ------------------------------------------- getNextServer (the selector)

\* A request arrives on a free slot and its handler calls lb.getNextServer.
Arrive(r) ==
    /\ req[r].pc \in {"idle", "done"}
    /\ calls < CallCap(probes)
    /\ req' = [req EXCEPT ![r] = [IdleReq EXCEPT !.pc = "lock"]]
    /\ calls' = calls + 1
    /\ allDown' = [allDown EXCEPT ![r] = AllFalse(IsHealthy)]
    /\ UNCHANGED <<n, IsHealthy, srvMutex, Current, lbMutex, picks, proberVars>>

\* Variant of LbLock: the call goes on without waiting for lb.Mutex.
LbLockNoWait(r) ==
    /\ req[r].pc = "lock"
    /\ lbMutex' = TRUE
    /\ req' = [req EXCEPT ![r].pc = "loop", ![r].i = 0, ![r].start = Current]
    /\ UNCHANGED <<n, IsHealthy, srvMutex, Current, picks, calls, proberVars, allDown>>

\* lb.Mutex.Lock(); i := 0
LbLock(r) ==
    /\ req[r].pc = "lock"
    /\ ~lbMutex
    /\ lbMutex' = TRUE
    /\ req' = [req EXCEPT ![r].pc = "loop", ![r].i = 0, ![r].start = Current]
    /\ UNCHANGED <<n, IsHealthy, srvMutex, Current, picks, calls, proberVars, allDown>>

\* Variant of NextIndex: the index is taken after the increment.
NextIndexAfterIncrement(cur, len) == GoMod(cur + 1, len)

\* idx := lb.Current % len(servers)
NextIndex(cur, len) == GoMod(cur, len)

\* Mutation: a loop that tests its condition after the first pass only.
LoopTestAfterFirst(i, len) == i = 0 \/ i < len

\* Mutation: a loop that gives up one backend early.
LoopTestStopsEarly(i, len) == i < len - 1

\* Variant of LoopTest: the loop runs once more.
LoopTestInclusive(i, len) == i <= len

\* The loop condition of getNextServer.
LoopTest(i, len) == i < len

\* Mutation: an attempt that advances the cursor by two.
PickAdvancesTwice(r) ==
    /\ req[r].pc = "loop"
    /\ LoopTest(req[r].i, n)
    /\ n # 0
    /\ NextIndex(Current, n) \in 0 .. (n - 1)
    /\ req' = [req EXCEPT ![r].pc = "slock", ![r].idx = NextIndex(Current, n)]
    /\ Current' = GoInc(GoInc(Current))
    /\ UNCHANGED <<n, IsHealthy, srvMutex, lbMutex, picks, calls, proberVars, allDown>>

\* i < len(servers): idx := lb.Current % len(servers); lb.Current++
\* A % by zero panics, and so does servers[idx] with idx outside
\* 0 .. len-1: the step is then not taken (the request gets no server).
Pick(r) ==
    /\ req[r].pc = "loop"
    /\ LoopTest(req[r].i, n)
    /\ n # 0
    /\ NextIndex(Current, n) \in 0 .. (n - 1)
    /\ req' = [req EXCEPT ![r].pc = "slock", ![r].idx = NextIndex(Current, n)]
    /\ Current' = GoInc(Current)
    /\ UNCHANGED <<n, IsHealthy, srvMutex, lbMutex, picks, calls, proberVars, allDown>>

\* nextServer.Mutex.Lock()
SrvLock(r) ==
    /\ req[r].pc = "slock"
    /\ ~srvMutex[req[r].idx]
    /\ srvMutex' = [srvMutex EXCEPT ![req[r].idx] = TRUE]
    /\ req' = [req EXCEPT ![r].pc = "read"]
    /\ UNCHANGED <<n, IsHealthy, Current, lbMutex, picks, calls, proberVars, allDown>>

\* Mutation: a selector that marks the backend it examines as unhealthy.
SrvReadMarksDown(r) ==
    /\ req[r].pc = "read"
    /\ req' = [req EXCEPT ![r].pc = "sunlock",
                          ![r].isHealthy = IsHealthy[req[r].idx],
                          ![r].seen = Append(@, [idx |-> req[r].idx,
                                                 healthy |-> IsHealthy[req[r].idx]])]
    /\ IsHealthy' = [IsHealthy EXCEPT ![req[r].idx] = FALSE]
    /\ UNCHANGED <<n, srvMutex, Current, lbMutex, picks, calls, proberVars, allDown>>

\* isHealthy := nextServer.IsHealthy
SrvRead(r) ==
    /\ req[r].pc = "read"
    /\ req' = [req EXCEPT ![r].pc = "sunlock",
                          ![r].isHealthy = IsHealthy[req[r].idx],
                          ![r].seen = Append(@, [idx |-> req[r].idx,
                                                 healthy |-> IsHealthy[req[r].idx]])]
    /\ UNCHANGED <<n, IsHealthy, srvMutex, Current, lbMutex, picks, calls, proberVars, allDown>>

\* Mutation: a selector that forgets nextServer.Mutex.Unlock().
SrvUnlockForgets(r) ==
    /\ req[r].pc = "sunlock"
    /\ req' = [req EXCEPT ![r].pc = "test"]
    /\ UNCHANGED <<n, IsHealthy, srvMutex, Current, lbMutex, picks, calls, proberVars, allDown>>

\* nextServer.Mutex.Unlock()
SrvUnlock(r) ==
    /\ req[r].pc = "sunlock"
    /\ srvMutex' = [srvMutex EXCEPT ![req[r].idx] = FALSE]
    /\ req' = [req EXCEPT ![r].pc = "test"]
    /\ UNCHANGED <<n, IsHealthy, Current, lbMutex, picks, calls, proberVars, allDown>>

\* The number of lb.Current++ that lead from cursor value a to b, the
\* wrap-around from the greatest int to the least included.
Increments(a, b) ==
    IF b >= a THEN b - a ELSE (b - MinInt) + (MaxInt - a) + 1

\* The locals of getNextServer are dead once it has returned. The history
\* keeps how far this call advanced lb.Current.
Returned(q, srv, cur) ==
    [q EXCEPT !.pc = "handler", !.server = srv, !.advanced = Increments(q.start, cur),
              !.start = 0, !.i = 0, !.idx = Nil, !.isHealthy = FALSE]

\* Variant of ReturnServer: the candidate is returned whatever its flag.
ReturnServerUnchecked(r) ==
    /\ req[r].pc = "test"
    /\ req' = [req EXCEPT ![r] = Returned(@, req[r].idx, Current)]
    /\ picks' = Append(picks, req[r].idx)
    /\ lbMutex' = FALSE
    /\ allDown' = [allDown EXCEPT ![r] = FALSE]
    /\ UNCHANGED <<n, IsHealthy, srvMutex, Current, calls, proberVars>>

\* Mutation: a return that puts the cursor back on the backend returned.
ReturnServerRewinds(r) ==
    /\ req[r].pc = "test"
    /\ req[r].isHealthy
    /\ req' = [req EXCEPT ![r] = Returned(@, req[r].idx, Current)]
    /\ picks' = Append(picks, req[r].idx)
    /\ lbMutex' = FALSE
    /\ Current' = Current - 1
    /\ allDown' = [allDown EXCEPT ![r] = FALSE]
    /\ UNCHANGED <<n, IsHealthy, srvMutex, calls, proberVars>>

\* if isHealthy { return nextServer }, with the deferred lb.Mutex.Unlock()
ReturnServer(r) ==
    /\ req[r].pc = "test"
    /\ req[r].isHealthy
    /\ req' = [req EXCEPT ![r] = Returned(@, req[r].idx, Current)]
    /\ picks' = Append(picks, req[r].idx)
    /\ lbMutex' = FALSE
    /\ allDown' = [allDown EXCEPT ![r] = FALSE]
    /\ UNCHANGED <<n, IsHealthy, srvMutex, Current, calls, proberVars>>

\* Variant of Skip: the cursor moves on only past a healthy candidate, so
\* skipping an unhealthy one takes the increment back.
SkipRewind(r) ==
    /\ req[r].pc = "test"
    /\ ~req[r].isHealthy
    /\ req' = [req EXCEPT ![r].pc = "loop", ![r].i = @ + 1]
    /\ Current' = Current - 1
    /\ UNCHANGED <<n, IsHealthy, srvMutex, lbMutex, picks, calls, proberVars, allDown>>

\* not healthy: i++ and around the loop again
Skip(r) ==
    /\ req[r].pc = "test"
    /\ ~req[r].isHealthy
    /\ req' = [req EXCEPT ![r].pc = "loop", ![r].i = @ + 1]
    /\ UNCHANGED <<n, IsHealthy, srvMutex, Current, lbMutex, picks, calls, proberVars, allDown>>

\* i = len(servers): return nil, with the deferred lb.Mutex.Unlock()
ReturnNil(r) ==
    /\ req[r].pc = "loop"
    /\ ~LoopTest(req[r].i, n)
    /\ req' = [req EXCEPT ![r] = Returned(@, Nil, Current)]
    /\ picks' = Append(picks, Nil)
    /\ lbMutex' = FALSE
    /\ allDown' = [allDown EXCEPT ![r] = FALSE]
    /\ UNCHANGED <<n, IsHealthy, srvMutex, Current, calls, proberVars>>

\* ------------------------------------------------ the handler of main

\* server == nil: http.Error(w, ..., http.StatusServiceUnavailable); return
Respond503(r) ==
    /\ req[r].pc = "handler"
    /\ req[r].server = Nil
    /\ req' = [req EXCEPT ![r].pc = "done", ![r].status = StatusServiceUnavailable,
                          ![r].advanced = 0, ![r].seen = <<>>]
    /\ UNCHANGED <<n, IsHealthy, srvMutex, Current, lbMutex, picks, calls, proberVars, allDown>>

\* Variant of Forward: the handler goes on to the proxy after a nil too.
ForwardUnchecked(r) ==
    /\ req[r].pc = "handler"
    /\ req' = [req EXCEPT ![r].pc = "proxy",
                          ![r].header = req[r].server,
                          ![r].proxied = Append(@, req[r].server),
                          ![r].advanced = 0, ![r].seen = <<>>]
    /\ UNCHANGED <<n, IsHealthy, srvMutex, Current, lbMutex, picks, calls, proberVars, allDown>>

\* w.Header().Add("X-Forwarded-Server", server.URL.String()) and the
\* reverse proxy of that server starts serving the request.
Forward(r) ==
    /\ req[r].pc = "handler"
    /\ req[r].server # Nil
    /\ req' = [req EXCEPT ![r].pc = "proxy",
                          ![r].header = req[r].server,
                          ![r].proxied = Append(@, req[r].server),
                          ![r].advanced = 0, ![r].seen = <<>>]
    /\ UNCHANGED <<n, IsHealthy, srvMutex, Current, lbMutex, picks, calls, proberVars, allDown>>

\* What ServeHTTP can leave as the status of the response: the backend's own
\* status relayed as it is (200, or for one other a 503 of the backend's
\* own), or the proxy's 502 when the backend failed.
RelayedStatus == {StatusOK, StatusServiceUnavailable, StatusBadGateway}

\* Mutation: a handler that selects again when the forwarding failed.
ProxyDoneRetries(r, code) ==
    /\ req[r].pc = "proxy"
    /\ req' = [req EXCEPT ![r] = IF code = StatusBadGateway
                                 THEN [IdleReq EXCEPT !.pc = "lock"]
                                 ELSE [req[r] EXCEPT !.pc = "done", !.status = code]]
    /\ UNCHANGED <<n, IsHealthy, srvMutex, Current, lbMutex, picks, calls, proberVars, allDown>>

\* ServeHTTP ends.
ProxyDone(r, code) ==
    /\ req[r].pc = "proxy"
    /\ req' = [req EXCEPT ![r].pc = "done", ![r].status = code]
    /\ UNCHANGED <<n, IsHealthy, srvMutex, Current, lbMutex, picks, calls, proberVars, allDown>>

\* ------------------------------------------------------------------ Next
Next ==
    \/ \E s \in 0 .. (n - 1) : Tick(s)
    \/ \E s \in 0 .. (n - 1) : \E o \in ProbeOutcomes : HeadReturns(s, o)
    \/ \E s \in 0 .. (n - 1) : ProberLock(s)
    \/ \E s \in 0 .. (n - 1) : ProberSet(s)
    \/ \E s \in 0 .. (n - 1) : ProberUnlock(s)
    \/ \E r \in Slots : Arrive(r)
    \/ \E r \in Slots : LbLock(r)
    \/ \E r \in Slots : Pick(r)
    \/ \E r \in Slots : SrvLock(r)
    \/ \E r \in Slots : SrvRead(r)
    \/ \E r \in Slots : SrvUnlock(r)
    \/ \E r \in Slots : ReturnServer(r)
    \/ \E r \in Slots : Skip(r)
    \/ \E r \in Slots : ReturnNil(r)
    \/ \E r \in Slots : Respond503(r)
    \/ \E r \in Slots : Forward(r)
    \/ \E r \in Slots : \E code \in RelayedStatus : ProxyDone(r, code)

Spec == Init /\ [][Next]_vars

\* ------------------------------------------------ fair scheduling
\*
\* The liveness claims are checked on a smaller instance: at most
\* LiveServers backends, LiveCalls requests and LiveProbes probe cycles.

LiveServers == 2
LiveCalls == 2
LiveProbes == 2

FairInit == Init /\ n <= LiveServers

FairNext == Next /\ calls' <= LiveCalls /\ probes' <= LiveProbes

\* The steps of getNextServer that wait for nothing.
SelectStep(r) ==
    \/ Pick(r) \/ SrvRead(r) \/ SrvUnlock(r)
    \/ ReturnServer(r) \/ Skip(r) \/ ReturnNil(r)

\* The steps of a prober from s.Mutex.Lock() to s.Mutex.Unlock().
ProberAcquire(s) == s < n /\ ProberLock(s)
ProberWrite(s) == s < n /\ (ProberSet(s) \/ ProberUnlock(s))

\* What the Go scheduler and sync.Mutex provide: a goroutine that can run
\* does run, and a Lock() on a mutex that stays free is granted. Nothing
\* is assumed of the ticker, of client.Head (a probe may hang until its
\* timeout) or of the arrival and forwarding of requests.
Fairness ==
    /\ \A r \in Slots :
          /\ WF_vars(LbLock(r))
          /\ WF_vars(SrvLock(r))
          /\ WF_vars(SelectStep(r))
    /\ \A s \in 0 .. (LiveServers - 1) :
          /\ WF_vars(ProberAcquire(s))
          /\ WF_vars(ProberWrite(s))

FairSpec == FairInit /\ [][FairNext]_vars /\ Fairness

\* ------------------------------------------------ the end of the int range
\*
\* lb.Current is a Go int and lb.Current++ wraps around. The states in which
\* the cursor is within WrapMargin attempts of the greatest int are the
\* states of a balancer that has served that many attempts; the exploration
\* starts there, at a moment when no request is inside, with WrapCalls
\* requests and WrapProbes probe cycles to come. (The histories picks,
\* calls, probes start empty at that moment.)

WrapMargin == 1
WrapCalls == 3
WrapProbes == 1

WrapInit ==
    /\ n \in 1 .. MaxServers
    /\ IsHealthy = [s \in 0 .. (n - 1) |-> TRUE]
    /\ srvMutex = [s \in 0 .. (n - 1) |-> FALSE]
    /\ Current \in {MaxInt - k : k \in 0 .. WrapMargin}
    /\ lbMutex = FALSE
    /\ prober = [s \in 0 .. (n - 1) |-> [pc |-> "tick", res |-> "none"]]
    /\ req = [r \in Slots |-> IdleReq]
    /\ picks = <<>>
    /\ calls = 0
    /\ probes = 0
    /\ lastProbe = [s \in 0 .. (n - 1) |-> "none"]
    /\ downs = 0
    /\ firstDown = NoDown
    /\ allDown = [r \in Slots |-> FALSE]

\* nextServer := servers[idx] with idx outside 0 .. len-1: the index
\* expression panics before lb.Current++. The deferred lb.Mutex.Unlock()
\* runs, net/http recovers the panic and drops the connection: the request
\* ends with no server and no response.
PickPanics(r) ==
    /\ req[r].pc = "loop"
    /\ LoopTest(req[r].i, n)
    /\ n # 0
    /\ NextIndex(Current, n) \notin 0 .. (n - 1)
    /\ req' = [req EXCEPT ![r] = [IdleReq EXCEPT !.pc = "done"]]
    /\ lbMutex' = FALSE
    /\ allDown' = [allDown EXCEPT ![r] = FALSE]
    /\ UNCHANGED <<n, IsHealthy, srvMutex, Current, picks, calls, proberVars>>

WrapNext ==
    /\ Next \/ \E r \in Slots : PickPanics(r)
    /\ calls' <= WrapCalls
    /\ probes' <= WrapProbes

WrapSpec == WrapInit /\ [][WrapNext]_vars

\* ------------------------------------------------ fixed health
\*
\* The balancer at a moment when no request is inside, with any cursor
\* value up to FixedStart and any flags, each flag being what the last probe
\* of its backend made it; from there on every backend keeps answering its
\* probes as it did (FixedProbes cycles to come), so that no flag changes,
\* and FixedCalls requests arrive. (The histories picks, calls, probes start
\* empty at that moment.)

FixedStart == 3
FixedCalls == 4
FixedProbes == 1

Unhealthy == {s \in 0 .. (n - 1) : ~IsHealthy[s]}

FixedInit ==
    /\ n \in 0 .. MaxServers
    /\ IsHealthy \in [0 .. (n - 1) -> BOOLEAN]
    /\ srvMutex = [s \in 0 .. (n - 1) |-> FALSE]
    /\ Current \in 0 .. FixedStart
    /\ lbMutex = FALSE
    /\ prober = [s \in 0 .. (n - 1) |-> [pc |-> "tick", res |-> "none"]]
    /\ req = [r \in Slots |-> IdleReq]
    /\ picks = <<>>
    /\ calls = 0
    /\ probes = 0
    /\ lastProbe = [s \in 0 .. (n - 1) |-> IF IsHealthy[s] THEN "success" ELSE "failure"]
    /\ downs = Cardinality(Unhealthy)
    /\ firstDown = IF Unhealthy = {} THEN NoDown
                   ELSE [NoDown EXCEPT !.srv = CHOOSE s \in Unhealthy :
                                                  \A u \in Unhealthy : s <= u]
    /\ allDown = [r \in Slots |-> FALSE]

\* Every probe result agrees with the backend's flag.
SameOutcome ==
    \A s \in 0 .. (n - 1) :
        prober'[s].pc = "lock" => ProbeHealthy(prober'[s].res) = IsHealthy[s]

FixedNext ==
    /\ Next
    /\ SameOutcome
    /\ calls' <= FixedCalls
    /\ probes' <= FixedProbes

FixedSpec == FixedInit /\ [][FixedNext]_vars

\* ================================================================ claims

\* ------------------------------------------------------ history helpers
InSelection == {"loop", "slock", "read", "sunlock", "test"}

\* How often server s occurs among picks[a .. b].
Count(s, a, b) == Cardinality({k \in a .. b : picks[k] = s})

\* No probe cycle has ended in failure so far: every server has been
\* healthy since startup.
AllStayedHealthy == downs = 0

\* C1: with N >= 1 backends that are healthy and stay healthy, from cursor 0
\* the k-th getNextServer call returns the backend at index (k-1) mod N: the
\* first N calls return each backend once in configuration order and call N+1
\* returns index 0 again.
C1_RoundRobinInOrder ==
    (n >= 1 /\ AllStayedHealthy) =>
        /\ \A k \in 1 .. Len(picks) : picks[k] = (k - 1) % n
        /\ Len(picks) >= n => \A s \in 0 .. (n - 1) : Count(s, 1, n) = 1
        /\ Len(picks) > n => picks[n + 1] = 0

\* C1 witness: three healthy backends have served four calls, the cycle has
\* restarted.
C1_Witness ==
    /\ n = 3
    /\ AllStayedHealthy
    /\ picks = <<0, 1, 2, 0>>

\* Exactly one probe cycle has failed so far, the one of server b; it wrote
\* the flag between two selections, b has not been probed successfully
\* since, and so b is the one unhealthy server since then.
OneDownSince(b) ==
    /\ downs = 1
    /\ firstDown.srv = b
    /\ firstDown.between
    /\ lastProbe[b] = "failure"
    /\ \A s \in 0 .. (n - 1) : IsHealthy[s] = (s # b)

\* C2 as stated: with exactly one backend b unhealthy and the flags fixed,
\* every run of N consecutive getNextServer calls returns each of the N-1
\* healthy backends exactly once and never b.
C2_Original ==
    \A b \in 0 .. (n - 1) :
        OneDownSince(b) =>
            \A j \in (firstDown.at + 1) .. (Len(picks) - n + 1) :
                /\ \A s \in (0 .. (n - 1)) \ {b} : Count(s, j, j + n - 1) = 1
                /\ Count(b, j, j + n - 1) = 0

\* C2 amended: with exactly one backend b unhealthy and the flags fixed, no
\* call returns b (nor nil, when N >= 2), every run of N-1 consecutive
\* getNextServer calls returns each of the N-1 healthy backends exactly once,
\* and a run of N calls ends on the backend it began with.
C2_OneUnhealthy ==
    \A b \in 0 .. (n - 1) :
        OneDownSince(b) =>
            /\ \A k \in (firstDown.at + 1) .. Len(picks) :
                  picks[k] # b /\ (n >= 2 => picks[k] # Nil)
            /\ \A j \in (firstDown.at + 1) .. (Len(picks) - n + 2) :
                  \A s \in (0 .. (n - 1)) \ {b} : Count(s, j, j + n - 2) = 1
            /\ \A j \in (firstDown.at + 1) .. (Len(picks) - n + 1) :
                  n >= 2 => picks[j + n - 1] = picks[j]

\* C2 witness: of three backends the middle one went down when the cursor
\* pointed at it, and a run of three calls followed.
C2_Witness ==
    /\ n = 3
    /\ OneDownSince(1)
    /\ firstDown.at = 1
    /\ firstDown.cur % 3 = 1
    /\ Len(picks) = 4

\* C3: a getNextServer call that reads every flag it looks at as false (as
\* it must when all N backends are unhealthy throughout) returns nil after
\* exactly N attempts: it has read each backend's flag exactly once and
\* advanced the cursor by exactly N; and a call returns nil in no other way.
C3_AllUnhealthyReturnsNil ==
    \A r \in Slots :
        (/\ req[r].pc = "handler"
         /\ \/ req[r].server = Nil
            \/ \A k \in 1 .. Len(req[r].seen) : ~req[r].seen[k].healthy)
        => /\ req[r].server = Nil
           /\ Len(req[r].seen) = n
           /\ \A s \in 0 .. (n - 1) :
                 Cardinality({k \in 1 .. n : req[r].seen[k].idx = s}) = 1
           /\ \A k \in 1 .. n : ~req[r].seen[k].healthy
           /\ req[r].advanced = n

\* C3 witness: all three backends are unhealthy and a call has just
\* returned nil.
C3_Witness ==
    /\ n = 3
    /\ \A s \in 0 .. (n - 1) : ~IsHealthy[s] /\ lastProbe[s] = "failure"
    /\ \E r \in Slots : req[r].pc = "handler" /\ req[r].server = Nil

\* C7: backends A, B, C (0, 1, 2) all healthy, cursor 0: four selections
\* return A, B, C, A; B is then marked unhealthy, the cursor at that moment
\* pointing at B; the next selection returns C and the one after it A.
C7_Scenario ==
    (/\ n = 3
     /\ OneDownSince(1)
     /\ firstDown.at = 4)
    => /\ SubSeq(picks, 1, 4) = <<0, 1, 2, 0>>
       /\ firstDown.cur = 4
       /\ firstDown.cur % 3 = 1
       /\ Len(picks) >= 5 => picks[5] = 2
       /\ Len(picks) >= 6 => picks[6] = 0

\* C7 witness: the whole scenario has been played.
C7_Witness ==
    /\ n = 3
    /\ OneDownSince(1)
    /\ firstDown.at = 4
    /\ picks = <<0, 1, 2, 0, 2, 0>>

\* C4: every request ends in exactly one of two ways. If getNextServer
\* returned a backend, the request is forwarded to that backend and to no
\* other, and the response carries that backend's address; if it returned
\* nil, the response is 503 and nothing is forwarded. (A forwarded
\* response carries whatever status the backend or the proxy gave it.)
C4_DispatchOutcome ==
    \A r \in Slots :
        /\ req[r].pc = "handler" =>
              req[r].proxied = <<>> /\ req[r].header = Nil /\ req[r].status = NoStatus
        /\ req[r].pc = "proxy" =>
              /\ req[r].server \in 0 .. (n - 1)
              /\ req[r].proxied = <<req[r].server>>
              /\ req[r].header = req[r].server
              /\ req[r].status = NoStatus
        /\ req[r].pc = "done" =>
              \/ /\ req[r].server = Nil
                 /\ req[r].status = StatusServiceUnavailable
                 /\ req[r].proxied = <<>>
                 /\ req[r].header = Nil
              \/ /\ req[r].server \in 0 .. (n - 1)
                 /\ req[r].status \in RelayedStatus
                 /\ req[r].proxied = <<req[r].server>>
                 /\ req[r].header = req[r].server

\* C4 witness: one request has been answered 503 and another has been
\* forwarded to the backend it was given.
C4_Witness ==
    \E r1, r2 \in Slots :
        /\ req[r1].pc = "done" /\ req[r1].server = Nil
        /\ req[r1].status = StatusServiceUnavailable
        /\ req[r2].pc = "done" /\ req[r2].server # Nil
        /\ req[r2].proxied = <<req[r2].server>>

\* The selections that hold lb.Mutex.
Selecting == {r \in Slots : req[r].pc \in InSelection}

\* The attempts a selection has made: loop rounds completed, plus the one
\* under way.
Attempts(r) ==
    req[r].i + (IF req[r].pc \in {"slock", "read", "sunlock", "test"} THEN 1 ELSE 0)

\* C5: lb.Mutex totally orders the selections: at most one getNextServer
\* call is between taking and releasing it, the mutex is locked exactly
\* when there is one, and lb.Current is then where that call found it plus
\* that call's own attempts: nobody else has moved it.
C5_CursorLockExcludes ==
    /\ Cardinality(Selecting) <= 1
    /\ lbMutex <=> Selecting # {}
    /\ \A r \in Selecting : Current = req[r].start + Attempts(r)

\* C5 witness: one call is inside its sweep, past its first attempt, while
\* another call waits for lb.Mutex.
C5_Witness ==
    \E r1, r2 \in Slots :
        /\ req[r1].pc = "slock" /\ req[r1].i >= 1
        /\ req[r2].pc = "lock"
        /\ lbMutex

\* C6: K selections running concurrently against N >= 1 backends that stay
\* healthy: each returns a backend, lb.Current ends at K, consecutive
\* returns (in the order lb.Mutex was taken) are consecutive in the cyclic
\* order, and each backend is picked floor(K/N) or ceil(K/N) times.
C6_ConcurrentPicks ==
    (n >= 1 /\ AllStayedHealthy) =>
        /\ \A k \in 1 .. Len(picks) : picks[k] \in 0 .. (n - 1)
        /\ \A k \in 1 .. (Len(picks) - 1) : picks[k + 1] = (picks[k] + 1) % n
        /\ Selecting = {} => Current = Len(picks)
        /\ \A s \in 0 .. (n - 1) :
              /\ Count(s, 1, Len(picks)) >= Len(picks) \div n
              /\ Count(s, 1, Len(picks)) <= (Len(picks) + n - 1) \div n

\* C6 witness: three healthy backends, five calls have returned while a
\* sixth was waiting for lb.Mutex or already inside, all of them served.
C6_Witness ==
    /\ n = 3
    /\ AllStayedHealthy
    /\ Len(picks) = 5
    /\ calls = 6
    /\ \A r \in Slots : req[r].pc \notin {"idle", "done"}

\* C8: a backend is not eligible from the write of its first failed probe
\* cycle until the write of a later successful one, and eligible again from
\* then on: a flag read after a failed cycle and before the next successful
\* one is false, a flag read after a successful cycle is true, and a call
\* returns a backend only on having read its flag as true.
C8_EligibilityFollowsProbe ==
    \A r \in Slots :
        /\ req[r].pc = "sunlock" =>
              (req[r].isHealthy <=> lastProbe[req[r].idx] # "failure")
        /\ (req[r].pc = "handler" /\ req[r].server # Nil) =>
              /\ req[r].seen # <<>>
              /\ req[r].seen[Len(req[r].seen)].idx = req[r].server
              /\ req[r].seen[Len(req[r].seen)].healthy

\* C8 witness: the first probe cycle of a backend failed, a later one
\* succeeded, and a call has then read the flag and returned that backend.
C8_Witness ==
    \E r \in Slots :
        /\ req[r].pc = "handler"
        /\ req[r].server # Nil
        /\ firstDown.srv = req[r].server
        /\ lastProbe[req[r].server] = "success"
        /\ probes = 2

\* The tasks that hold the mutex of server s.
ProberHolds(s) == prober[s].pc \in {"set", "unlock"}
SelectorsHolding(s) == {r \in Slots : req[r].pc \in {"read", "sunlock"} /\ req[r].idx = s}

\* C9: after startup a backend's flag is written (by its prober, at "set")
\* and read (by a selection, at "read") only by a task that holds that
\* backend's mutex, and no two tasks hold the same backend's mutex at once.
C9_FlagUnderLock ==
    \A s \in 0 .. (n - 1) :
        /\ ProberHolds(s) => srvMutex[s]
        /\ SelectorsHolding(s) # {} => srvMutex[s]
        /\ Cardinality(SelectorsHolding(s)) + (IF ProberHolds(s) THEN 1 ELSE 0) <= 1
        /\ srvMutex[s] => (ProberHolds(s) \/ SelectorsHolding(s) # {})

\* C9 witness: a selection holds a backend's mutex, about to read the flag,
\* while that backend's prober waits for the same mutex with a result to
\* write.
C9_Witness ==
    \E r \in Slots :
        /\ req[r].pc = "read"
        /\ prober[req[r].idx].pc = "lock"
        /\ srvMutex[req[r].idx]

\* C10: a backend's flag is what its last completed probe cycle alone
\* makes it: true after a cycle that ended without error and with status
\* 200, false after any other, whatever the flag was before; before the
\* first cycle it is true.
C10_FlagIsLastProbe ==
    \A s \in 0 .. (n - 1) :
        IsHealthy[s] <=> lastProbe[s] # "failure"

\* C10 witness: one failed cycle has flipped a healthy backend to
\* unhealthy, and the single successful cycle after it has flipped it back.
C10_Witness ==
    \E s \in 0 .. (n - 1) :
        /\ firstDown.srv = s
        /\ downs = 1
        /\ probes = 2
        /\ lastProbe[s] = "success"
        /\ IsHealthy[s]
        /\ prober[s].pc = "tick"

\* ---------------------------------------------------------------- C11

\* The budget of the instance still allows backend s another probe cycle.
CycleBudgetLeft ==
    /\ probes < LiveProbes
    /\ probes < MaxProbes
    /\ calls <= CallCap(probes + 1)

\* C11: a probe error never stops a prober. Whatever the outcome of
\* client.Head, the prober that has it takes the backend's mutex, writes
\* the flag, releases the mutex and is back waiting for the next tick
\* (under fair scheduling); a prober waiting for a tick can always start
\* the next cycle, whatever its last outcome was; and a successful probe
\* leads to the flag being true, also when the backend was unhealthy before.
C11_ProberNeverStops ==
    \A s \in 0 .. (LiveServers - 1) :
        /\ [](s < n => prober[s].pc \in {"tick", "head", "lock", "set", "unlock"})
        /\ (s < n /\ prober[s].pc = "lock")
               ~> (s < n /\ prober[s].pc = "tick" /\ ~ProberHolds(s))
        /\ []((s < n /\ prober[s].pc = "tick" /\ CycleBudgetLeft)
                 => ENABLED Tick(s))
        /\ (s < n /\ prober[s].pc = "lock" /\ prober[s].res = "ok200")
               ~> (s < n /\ IsHealthy[s] /\ lastProbe[s] = "success")

\* C11 witness: a prober whose first cycle failed has finished a second,
\* successful cycle, and its backend is healthy again.
C11_Witness ==
    \E s \in 0 .. (n - 1) :
        /\ downs = 1
        /\ firstDown.srv = s
        /\ probes = 2
        /\ lastProbe[s] = "success"
        /\ IsHealthy[s]
        /\ prober[s].pc = "tick"
        /\ calls <= LiveCalls

\* ---------------------------------------------------------------- C18

\* Who holds what. lb.Mutex is held by the one request inside
\* getNextServer; a backend's mutex by its prober or by that request.
LockOrder ==
    /\ lbMutex <=> Selecting # {}
    /\ \A r \in Slots :
          req[r].pc \in {"read", "sunlock"}
              => /\ r \in Selecting
                 /\ srvMutex[req[r].idx]
                 /\ Cardinality({s \in 0 .. (n - 1) :
                                    SelectorsHolding(s) # {}}) = 1
    /\ \A s \in 0 .. (n - 1) :
          srvMutex[s] => (ProberHolds(s) \/ SelectorsHolding(s) # {})

\* A task that waits for a mutex waits for a holder that needs no mutex to
\* go on: no cycle of waiting tasks.
NoWaitCycle ==
    /\ \A r \in Slots :
          (req[r].pc = "slock" /\ srvMutex[req[r].idx])
              => ProberHolds(req[r].idx)
    /\ \A s \in 0 .. (n - 1) :
          (prober[s].pc = "lock" /\ srvMutex[s])
              => \E r \in Slots : req[r].pc \in {"read", "sunlock"} /\ req[r].idx = s
    /\ \A r \in Slots :
          (req[r].pc = "lock" /\ lbMutex)
              => \E q \in Slots \ {r} : req[q].pc \in InSelection

\* C18: the locks are nested in one order only (lb.Mutex, then at most one
\* backend's mutex; a prober holds its own backend's mutex alone and never
\* lb.Mutex), no task waits in a cycle, and under fair scheduling every
\* getNextServer call that started returns, with no assumption on the
\* probes in flight.
C18_SelectionTerminates ==
    /\ [](LockOrder /\ NoWaitCycle)
    /\ \A r \in Slots : (req[r].pc = "lock") ~> (req[r].pc = "handler")

\* C18 witness: one request waits for lb.Mutex while the request inside
\* getNextServer waits for the mutex of a backend whose prober holds it,
\* and another probe is still in flight.
C18_Witness ==
    \E r \in Slots, q \in Slots :
        /\ req[r].pc = "lock"
        /\ req[q].pc = "slock"
        /\ ProberHolds(req[q].idx)
        /\ \E s \in 0 .. (n - 1) : prober[s].pc = "head"

\* ---------------------------------------------------------------- C12

\* C12, as stated: in every reachable state, with the cursor the fixed-width
\* signed integer of the code, the cursor is not negative and the index
\* cursor mod N lies in 0 .. N-1.
C12_CursorNonNegative ==
    /\ Current >= 0
    /\ n > 0 => NextIndex(Current, n) \in 0 .. (n - 1)

\* The attempt made at the greatest int has wrapped the cursor to the least
\* int, and the request that came next found an index below 0 and panicked.
C12_Wrapped ==
    /\ Current < 0
    /\ NextIndex(Current, n) < 0
    /\ \E r \in Slots : req[r].pc = "done" /\ req[r].status = NoStatus

\* ---------------------------------------------------------------- C13

\* The requests that are waiting for, or inside, getNextServer.
InCall == {r \in Slots : req[r].pc \in {"lock"} \cup InSelection}

\* C13: no retry within a request. Every request makes exactly one
\* getNextServer call (the returns and the calls in progress add up to the
\* requests) and forwards at most once; the end of a forwarding, failed or
\* not, completes the request and leaves the cursor, every flag and the
\* returns as they were; a completed request takes no further step (its
\* slot changes only by the arrival of the next request).
C13_NoRetry ==
    /\ [](/\ Len(picks) + Cardinality(InCall) = calls
          /\ \A r \in Slots :
                /\ Len(req[r].proxied) <= 1
                /\ req[r].status = StatusBadGateway => Len(req[r].proxied) = 1)
    /\ [][\A r \in Slots :
            /\ (req[r].pc = "proxy" /\ req'[r] # req[r])
                  => /\ req'[r].pc = "done"
                     /\ req'[r].proxied = req[r].proxied
                     /\ req'[r].server = req[r].server
                     /\ Current' = Current
                     /\ IsHealthy' = IsHealthy
                     /\ picks' = picks
                     /\ calls' = calls
            /\ (req[r].pc = "done" /\ req'[r] # req[r])
                  => calls' = calls + 1]_vars

\* C13 witness: a forwarding has failed (502); the request is complete
\* after its one forwarding, and the chosen backend is still marked healthy.
C13_Witness ==
    \E r \in Slots :
        /\ req[r].pc = "done"
        /\ req[r].status = StatusBadGateway
        /\ req[r].proxied = <<req[r].server>>
        /\ IsHealthy[req[r].server]
        /\ lastProbe[req[r].server] = "none"
        /\ Current = calls

\* ---------------------------------------------------------------- C14

\* C14: frame conditions. The sequence of backends never changes; a step
\* that changes a flag is the write of one prober, which changes the flag
\* of its own backend only and neither the cursor nor any request; the
\* steps of getNextServer and of the handler (all that change a request)
\* change no flag; and no step of a prober changes the cursor, lb.Mutex or
\* the returns.
C14_Frame ==
    [][/\ n' = n
       /\ DOMAIN IsHealthy' = DOMAIN IsHealthy
       /\ IsHealthy' # IsHealthy
             => \E s \in 0 .. (n - 1) :
                   /\ prober[s].pc = "set"
                   /\ prober'[s].pc = "unlock"
                   /\ \A u \in 0 .. (n - 1) : u # s => IsHealthy'[u] = IsHealthy[u]
                   /\ Current' = Current
                   /\ req' = req
       /\ req' # req => IsHealthy' = IsHealthy
       /\ prober' # prober
             => /\ Current' = Current
                /\ lbMutex' = lbMutex
                /\ picks' = picks
                /\ req' = req]_vars

\* C14 witness: a prober has just turned its backend's flag to false while
\* a selection was in progress; the other backend's flag, the cursor and
\* the selection are as they were.
C14_Witness ==
    \E s \in 0 .. (n - 1), u \in 0 .. (n - 1), r \in Slots :
        /\ s # u
        /\ prober[s].pc = "unlock"
        /\ ~IsHealthy[s]
        /\ IsHealthy[u]
        /\ lastProbe[u] = "none"
        /\ req[r].pc = "test"
        /\ req[r].idx = s
        /\ req[r].isHealthy

\* ---------------------------------------------------------------- C15

\* C15: one getNextServer call that starts at cursor c examines the indices
\* c mod N, (c+1) mod N, ... in that order, N at most and so each backend
\* at most once; the cursor is c plus the attempts made so far, at every
\* moment of the call; every flag read before the last attempt was false.
\* A call that returns a backend at its k-th attempt returns the k-th
\* index examined, whose flag it read true, and has advanced the cursor
\* by k.
C15_SingleCall ==
    \A r \in Slots :
        LET seen == req[r].seen
            k == Len(seen)
        IN  /\ req[r].pc \in InSelection
                  => /\ k <= n
                     /\ k = IF req[r].pc \in {"sunlock", "test"}
                             THEN Attempts(r) ELSE Attempts(r) - (IF req[r].pc = "loop" THEN 0 ELSE 1)
                     /\ Current = req[r].start + Attempts(r)
                     /\ \A j \in 1 .. k :
                           /\ seen[j].idx = GoMod(req[r].start + j - 1, n)
                           /\ (j < k \/ req[r].pc \in {"loop", "slock", "read"})
                                 => ~seen[j].healthy
            /\ (req[r].pc = "handler" /\ req[r].server # Nil)
                  => /\ k \in 1 .. n
                     /\ req[r].advanced = k
                     /\ seen[k] = [idx |-> req[r].server, healthy |-> TRUE]
                     /\ \A j \in 1 .. (k - 1) :
                           /\ ~seen[j].healthy
                           /\ seen[j + 1].idx = (seen[j].idx + 1) % n
                     /\ \A i, j \in 1 .. k : seen[i].idx = seen[j].idx => i = j

\* C15 witness: with 3 backends a call that started at cursor 1 has read
\* the flags of backends 1 and 2 false and returned backend 0 at its third
\* attempt, leaving the cursor at 4.
C15_Witness ==
    \E r \in Slots :
        /\ n = 3
        /\ req[r].pc = "handler"
        /\ req[r].server = 0
        /\ req[r].advanced = 3
        /\ req[r].seen = << [idx |-> 1, healthy |-> FALSE],
                            [idx |-> 2, healthy |-> FALSE],
                            [idx |-> 0, healthy |-> TRUE] >>
        /\ Current = 4

\* ---------------------------------------------------------------- C19

\* C19: while a prober waits for a tick or has its probe in flight
\* (client.Head has not returned), it does not hold its backend's mutex: the
\* mutex is free or held by a selector, and a selector that wants it is
\* not kept waiting by the prober. The prober holds the mutex only from
\* s.Mutex.Lock() to s.Mutex.Unlock(), around the write of the flag.
C19_NoLockDuringProbe ==
    \A s \in 0 .. (n - 1) :
        /\ prober[s].pc \in {"tick", "head", "lock"}
              => (srvMutex[s] => SelectorsHolding(s) # {})
        /\ \A r \in Slots :
              (/\ prober[s].pc \in {"tick", "head"}
               /\ req[r].pc = "slock"
               /\ req[r].idx = s) => ENABLED SrvLock(r)
        /\ (srvMutex[s] /\ SelectorsHolding(s) = {})
              => prober[s].pc \in {"set", "unlock"}

\* C19 witness: a selector holds a backend's mutex and reads its flag
\* while that backend's probe is in flight.
C19_Witness ==
    \E r \in Slots :
        /\ req[r].pc = "read"
        /\ srvMutex[req[r].idx]
        /\ prober[req[r].idx].pc = "head"

\* ---------------------------------------------------------------- C20

\* C20: with no backend configured, a getNextServer call makes no attempt
\* (the loop condition is false at once, cursor mod 0 is never evaluated):
\* holding lb.Mutex it can only return nil, it returns nil with the cursor
\* still 0 and lb.Mutex released, and the handler answers 503 and
\* forwards nothing.
C20_NoBackends ==
    n = 0 =>
        /\ Current = 0
        /\ \A k \in 1 .. Len(picks) : picks[k] = Nil
        /\ lbMutex <=> \E r \in Slots : req[r].pc = "loop"
        /\ \A r \in Slots :
              /\ req[r].pc \in {"idle", "lock", "loop", "handler", "done"}
              /\ req[r].pc = "loop" => (ENABLED ReturnNil(r) /\ ~ENABLED Pick(r))
              /\ req[r].pc = "handler"
                    => (req[r].server = Nil /\ req[r].advanced = 0 /\ req[r].seen = <<>>)
              /\ req[r].pc = "done"
                    => (req[r].status = StatusServiceUnavailable /\ req[r].proxied = <<>>)

\* C20 witness: with no backend, one request has been answered 503 and
\* another has just got nil from getNextServer; the cursor is 0 and
\* lb.Mutex is free.
C20_Witness ==
    /\ n = 0
    /\ Current = 0
    /\ ~lbMutex
    /\ \E r \in Slots, q \in Slots :
          /\ req[r].pc = "done"
          /\ req[r].status = StatusServiceUnavailable
          /\ req[q].pc = "handler"
          /\ req[q].server = Nil

\* ---------------------------------------------------------------- C17

Healthy == {s \in 0 .. (n - 1) : IsHealthy[s]}

\* The first healthy backend after s in cyclic configuration order.
NextHealthy(s) ==
    LET d == CHOOSE d \in 1 .. n :
                 /\ (s + d) % n \in Healthy
                 /\ \A e \in 1 .. (d - 1) : (s + e) % n \notin Healthy
    IN  (s + d) % n

\* C17: with the flags fixed and H >= 1 of the N backends healthy, from any
\* cursor value every getNextServer call returns a healthy backend (never
\* nil, never an unhealthy one), each return is the next healthy backend
\* after the previous return in cyclic configuration order, and any H
\* consecutive returns are each healthy backend exactly once.
C17_HealthyCycle ==
    LET H == Cardinality(Healthy)
    IN  H >= 1 =>
          /\ \A k \in 1 .. Len(picks) : picks[k] \in Healthy
          /\ \A k \in 1 .. (Len(picks) - 1) : picks[k + 1] = NextHealthy(picks[k])
          /\ \A a \in 1 .. (Len(picks) - H + 1) :
                {picks[k] : k \in a .. (a + H - 1)} = Healthy

\* C17 witness: 3 backends of which 0 and 2 are healthy; four calls from a
\* cursor on the unhealthy backend 1 have returned 2, 0, 2, 0.
C17_Witness ==
    /\ n = 3
    /\ Healthy = {0, 2}
    /\ picks = <<2, 0, 2, 0>>
    /\ Current = 7
    /\ probes = 1

\* ---------------------------------------------------------------- C16

\* The calls that have examined every backend and are about to return nil.
ReturningNil == {r \in Slots : req[r].pc = "loop" /\ ~LoopTest(req[r].i, n)}

\* C16, as stated: whenever a getNextServer call returns nil while probers
\* run, there was a moment during that call at which all flags were false
\* at once.
C16_AllDownAtOnce ==
    \A r \in ReturningNil : allDown[r]

\* C16, amended: a getNextServer call returns nil (and the handler answers
\* 503) only after it has read the flag of every backend exactly once and
\* found each false when it read it; a 503 of the balancer's own is
\* answered in no other case. (The flags read need not have been false at
\* the same moment.)
C16_NilAfterFalseReads ==
    /\ \A r \in ReturningNil :
          /\ Len(req[r].seen) = n
          /\ \A s \in 0 .. (n - 1) :
                Cardinality({j \in 1 .. n : req[r].seen[j].idx = s}) = 1
          /\ \A j \in 1 .. n : ~req[r].seen[j].healthy
    /\ \A r \in Slots :
          (req[r].pc = "handler" /\ req[r].server = Nil)
              => (Len(req[r].seen) = n /\ \A j \in 1 .. n : ~req[r].seen[j].healthy)
    /\ \A r \in Slots :
          (req[r].pc = "done" /\ req[r].proxied = <<>>)
              => req[r].status = StatusServiceUnavailable

\* C16 witness: with 2 backends a call is about to return nil although the
\* flags were never both false during it: it read backend 0 false, then
\* backend 0 recovered and backend 1 failed, and it read backend 1 false.
C16_Witness ==
    \E r \in ReturningNil :
        /\ n = 2
        /\ ~allDown[r]
        /\ IsHealthy[0]
        /\ ~IsHealthy[1]
        /\ req[r].seen = << [idx |-> 0, healthy |-> FALSE],
                            [idx |-> 1, healthy |-> FALSE] >>

====
